---- MODULE Spec2Model ----
(***************************************************************************)
(* State-machine model of the SatelliteTracker React component             *)
(* (src/src/components/SatelliteTracker.tsx).                              *)
(*                                                                         *)
(* Number representation (exact decimal fixed point, no rounding error):   *)
(*   - angles (rotation, longitude, latitude) in hundredths of a degree;   *)
(*   - zoom in tenths;                                                     *)
(*   - lengths (radius, cartesian coordinates, depth) in hundredths;       *)
(*   - pointer coordinates (clientX, clientY) in whole pixels;             *)
(*   - a value before toFixed(2) in thousandths.                           *)
(* Strings the code computes with (name, lon, lat, alt, searchTerm) are    *)
(* sequences of one-character strings.                                     *)
(*                                                                         *)
(* React: a handler reads isDragging and dragStart from the closure of the *)
(* render that created it.  The variables isDragging, dragStart, rotation  *)
(* and zoom hold the state with every queued update applied; view holds    *)
(* the isDragging and dragStart of the last render, which is what the      *)
(* handlers bound to the DOM read.  Updates made in a discrete event       *)
(* (mousedown, mouseup, click, change) are rendered before the next event; *)
(* updates made in a continuous event (mousemove, mouseleave) or in a      *)
(* timer callback are rendered by a later task (action Render).            *)
(***************************************************************************)
EXTENDS Integers, Sequences, FiniteSets, TLC

VARIABLES
    rotation,     \* useState({x: 0, y: 0}), hundredths of a degree
    zoom,         \* useState(1), tenths
    isDragging,   \* useState(false)
    dragStart,    \* useState({x: 0, y: 0}), pixels
    satellites,   \* useState<Satellite[]>([])
    loading,      \* useState(true)
    filter,       \* useState('all')
    searchTerm,   \* useState('')
    error,        \* useState<string | null>(null)
    view,         \* isDragging and dragStart as captured by the last render
    phase,        \* "initial" (rendered, effect pending), "mounted", "unmounted"
    timers,       \* ids of the active setInterval timers
    interval,     \* the id the effect closure holds (const interval)
    heap,         \* number of Satellite objects allocated so far
    lastEvent,    \* the callback that ran last (history)
    drag,         \* bookkeeping of the current drag gesture (history)
    fetches,      \* number of fetchSatellites calls so far (history)
    ticks,        \* number of timer ticks so far (history)
    failed,       \* a fetch has thrown (history)
    proj          \* the projection pipeline applied to one entity (pure-function check)

vars == <<rotation, zoom, isDragging, dragStart, satellites, loading, filter,
          searchTerm, error, view, phase, timers, interval, heap, lastEvent,
          drag, fetches, ticks, failed, proj>>

interactionVars == <<rotation, zoom, isDragging, dragStart, view, drag>>

dataVars == <<satellites, loading, filter, searchTerm, error, phase, timers,
              interval, heap, fetches, ticks, failed>>

null == "null"

-----------------------------------------------------------------------------
(* Arithmetic helpers *)

Abs(n) == IF n < 0 THEN -n ELSE n

Max(a, b) == IF a >= b THEN a ELSE b

Min(a, b) == IF a <= b THEN a ELSE b

\* JavaScript's % on numbers: the remainder takes the sign of the dividend.
JsRem(a, m) == IF a >= 0 THEN a % m ELSE -((-a) % m)

\* The representative of a modulo m in 0..m-1 (used to compare angles).
Norm(a, m) == ((a % m) + m) % m

-----------------------------------------------------------------------------
(* Interaction state: rotation, zoom, drag *)

FullTurn == 36000

Sensitivity == 30

ZoomMin == 5

ZoomMax == 25

ZoomStep == 1

\* Pointer positions the events are drawn from.
PointerPositions == {[x |-> 0, y |-> 0], [x |-> 300, y |-> 0], [x |-> 0, y |-> 300]}

\* Mutant of RotateBy: the two axes exchanged.
RotateBySwappedAxes(prev, dx, dy) ==
    [x |-> JsRem(prev.x + dx * Sensitivity, FullTurn),
     y |-> JsRem(prev.y + dy * Sensitivity, FullTurn)]

\* setRotation(prev => ({x: (prev.x + dy * 0.3) % 360, y: (prev.y + dx * 0.3) % 360}))
RotateBy(prev, dx, dy) ==
    [x |-> JsRem(prev.x + dy * Sensitivity, FullTurn),
     y |-> JsRem(prev.y + dx * Sensitivity, FullTurn)]

\* Mutant of ZoomBy: Math.min and Math.max exchanged.
ZoomBySwappedClamp(prev, direction) ==
    Min(ZoomMin, Max(ZoomMax, prev + direction * ZoomStep))

\* Math.max(0.5, Math.min(2.5, prev + direction * 0.1))
ZoomBy(prev, direction) == Max(ZoomMin, Min(ZoomMax, prev + direction * ZoomStep))

\* The render that follows: the handlers are re-created over the new state.
Flush == view' = [isDragging |-> isDragging', dragStart |-> dragStart']

\* handleMouseDown: setIsDragging(true); setDragStart({x: e.clientX, y: e.clientY})
handleMouseDown(e) ==
    /\ isDragging' = TRUE
    /\ dragStart' = [x |-> e.x, y |-> e.y]
    /\ lastEvent' = [type |-> "mousedown", x |-> e.x, y |-> e.y]
    /\ UNCHANGED <<rotation, zoom>>

\* handleMouseMove: isDragging and dragStart are those of the closure.
handleMouseMove(e) ==
    /\ IF ~view.isDragging
       THEN UNCHANGED <<rotation, dragStart>>
       ELSE /\ rotation' = RotateBy(rotation, e.x - view.dragStart.x,
                                    e.y - view.dragStart.y)
            /\ dragStart' = [x |-> e.x, y |-> e.y]
    /\ lastEvent' = [type |-> "mousemove", x |-> e.x, y |-> e.y]
    /\ UNCHANGED <<zoom, isDragging>>

\* handleMouseUp: setIsDragging(false); bound to onMouseUp and to onMouseLeave.
handleMouseUp(type) ==
    /\ isDragging' = FALSE
    /\ lastEvent' = [type |-> type, x |-> 0, y |-> 0]
    /\ UNCHANGED <<rotation, zoom, dragStart>>

\* handleZoom(direction)
handleZoom(direction) ==
    /\ zoom' = ZoomBy(zoom, direction)
    /\ lastEvent' = [type |-> "zoom", x |-> direction, y |-> 0]
    /\ UNCHANGED <<rotation, isDragging, dragStart>>

\* onMouseDown, a discrete event: rendered before the next event.
MouseDown ==
    /\ phase # "unmounted"
    /\ \E e \in PointerPositions : handleMouseDown(e)
    /\ Flush
    /\ UNCHANGED <<drag, dataVars, proj>>

\* onMouseMove, a continuous event: rendered by a later task.
MouseMove ==
    /\ phase # "unmounted"
    /\ \E e \in PointerPositions : handleMouseMove(e)
    /\ UNCHANGED <<view, drag, dataVars, proj>>

\* onMouseUp, a discrete event.
MouseUp ==
    /\ phase # "unmounted"
    /\ handleMouseUp("mouseup")
    /\ Flush
    /\ UNCHANGED <<drag, dataVars, proj>>

\* onMouseLeave, a continuous event.
MouseLeave ==
    /\ phase # "unmounted"
    /\ handleMouseUp("mouseleave")
    /\ UNCHANGED <<view, drag, dataVars, proj>>

\* onClick of the zoom-in and zoom-out buttons, a discrete event.
ZoomClick ==
    /\ phase # "unmounted"
    /\ \E direction \in {1, -1} : handleZoom(direction)
    /\ Flush
    /\ UNCHANGED <<drag, dataVars, proj>>

\* The render pass scheduled by a continuous event.
Render ==
    /\ phase # "unmounted"
    /\ view # [isDragging |-> isDragging, dragStart |-> dragStart]
    /\ UNCHANGED <<rotation, zoom, isDragging, dragStart, drag, dataVars, proj>>
    /\ Flush
    /\ lastEvent' = [type |-> "render", x |-> 0, y |-> 0]

(* The same events with the drag gesture recorded in drag: the rotation and *)
(* the pointer position at pointer-down, the position of the last          *)
(* pointer-move, and whether a pointer-down .. pointer-up gesture has just *)
(* completed.                                                              *)

NoDrag == [active |-> FALSE, complete |-> FALSE, rot0 |-> [x |-> 0, y |-> 0],
           down |-> [x |-> 0, y |-> 0], last |-> [x |-> 0, y |-> 0]]

DragDown ==
    /\ phase # "unmounted"
    /\ \E e \in PointerPositions :
          /\ handleMouseDown(e)
          /\ drag' = [active |-> TRUE, complete |-> FALSE, rot0 |-> rotation,
                      down |-> e, last |-> e]
    /\ Flush
    /\ UNCHANGED <<dataVars, proj>>

DragMove ==
    /\ phase # "unmounted"
    /\ \E e \in PointerPositions :
          /\ handleMouseMove(e)
          /\ drag' = IF drag.active THEN [drag EXCEPT !.last = e] ELSE drag
    /\ UNCHANGED <<view, dataVars, proj>>

DragUp ==
    /\ phase # "unmounted"
    /\ handleMouseUp("mouseup")
    /\ drag' = [drag EXCEPT !.active = FALSE, !.complete = drag.active]
    /\ Flush
    /\ UNCHANGED <<dataVars, proj>>

DragLeave ==
    /\ phase # "unmounted"
    /\ handleMouseUp("mouseleave")
    /\ drag' = [drag EXCEPT !.active = FALSE, !.complete = FALSE]
    /\ UNCHANGED <<view, dataVars, proj>>

-----------------------------------------------------------------------------
(* Strings and number formatting *)

DigitChars == <<"0", "1", "2", "3", "4", "5", "6", "7", "8", "9">>

UpperChars == <<"A", "B", "C", "D", "E", "F", "G", "H", "I", "J", "K", "L", "M",
                "N", "O", "P", "Q", "R", "S", "T", "U", "V", "W", "X", "Y", "Z">>

LowerChars == <<"a", "b", "c", "d", "e", "f", "g", "h", "i", "j", "k", "l", "m",
                "n", "o", "p", "q", "r", "s", "t", "u", "v", "w", "x", "y", "z">>

\* The decimal digits of a natural number, as `${n}` prints them.
RECURSIVE NatToChars(_)
NatToChars(n) ==
    IF n < 10 THEN <<DigitChars[n + 1]>>
    ELSE NatToChars(n \div 10) \o <<DigitChars[(n % 10) + 1]>>

DigitOf(c) == CHOOSE d \in 0..9 : DigitChars[d + 1] = c

\* The value of a sequence of decimal digits.
RECURSIVE CharsToNat(_)
CharsToNat(cs) ==
    IF cs = <<>> THEN 0
    ELSE CharsToNat(SubSeq(cs, 1, Len(cs) - 1)) * 10 + DigitOf(cs[Len(cs)])

\* Number.prototype.toFixed(2) of the number milli/1000: the sign, then the
\* closest multiple of 0.01 (the larger one on a tie), with two decimals.
ToFixed2(milli) ==
    LET n == (Abs(milli) + 5) \div 10
    IN  (IF milli < 0 THEN <<"-">> ELSE <<>>)
        \o NatToChars(n \div 100)
        \o <<".", DigitChars[((n \div 10) % 10) + 1], DigitChars[(n % 10) + 1]>>

\* parseFloat of a decimal string [-]digits.dd, in hundredths.
ParseFloat(cs) ==
    LET neg  == cs # <<>> /\ cs[1] = "-"
        body == IF neg THEN Tail(cs) ELSE cs
        dot  == CHOOSE k \in 1..Len(body) : body[k] = "."
        int  == CharsToNat(SubSeq(body, 1, dot - 1))
        frac == CharsToNat(SubSeq(body, dot + 1, dot + 2))
        mag  == int * 100 + frac
    IN  IF neg THEN -mag ELSE mag

\* String.prototype.toLowerCase on the ASCII letters.
ToLowerChar(c) ==
    IF \E k \in 1..Len(UpperChars) : UpperChars[k] = c
    THEN LowerChars[CHOOSE k \in 1..Len(UpperChars) : UpperChars[k] = c]
    ELSE c

ToLowerCase(s) == [k \in 1..Len(s) |-> ToLowerChar(s[k])]

\* String.prototype.includes
Includes(s, t) ==
    \E k \in 0..(Len(s) - Len(t)) : SubSeq(s, k + 1, k + Len(t)) = t

-----------------------------------------------------------------------------
(* Data source: fetchSatellites and the refresh timer *)

NumSatellites == 200

Categories == <<"communication", "navigation", "weather", "telescope", "debris">>

FetchErrorMessage == "Failed to fetch satellite data"

\* Outcomes of Math.random() * 360 - 180, Math.random() * 180 - 90 and
\* 300 + Math.random() * 35700 (thousandths), and of Math.floor(Math.random() * 5).
LonDraws == <<-180000, -90000, -4, 0, 90000, 179996>>

LatDraws == <<-90000, -89996, 0, 89995>>

AltDraws == <<300000, 10000000, 35999996>>

CategoryDraws == <<0, 1, 2, 3, 4>>

\* Number of random sequences a refresh may draw.
MaxSeed == 2

Pick(draws, k) == draws[(k % Len(draws)) + 1]

\* One element of Array.from({length: 200}, (_, i) => ({...})); ref is the
\* identity of the object (its allocation number).
NewSatellite(i, lonDraw, latDraw, altDraw, catDraw, ref) ==
    [name     |-> <<"S", "A", "T", "-">> \o NatToChars(i + 1),
     norad_id |-> i + 1,
     lon      |-> ToFixed2(lonDraw),
     lat      |-> ToFixed2(latDraw),
     alt      |-> ToFixed2(altDraw),
     category |-> Categories[catDraw + 1],
     ref      |-> ref]

\* Mutant of SampleData: the objects of the first collection are reused.
SampleDataInPlace(seed, base) ==
    [k \in 1..NumSatellites |->
        NewSatellite(k - 1, Pick(LonDraws, seed + k), Pick(LatDraws, 2 * seed + k \div 2),
                     Pick(AltDraws, seed + k \div 3), Pick(CategoryDraws, 3 * seed + k \div 7),
                     k)]

\* sampleData for the random sequence numbered seed, allocated from base.
SampleData(seed, base) ==
    [k \in 1..NumSatellites |->
        NewSatellite(k - 1, Pick(LonDraws, seed + k), Pick(LatDraws, 2 * seed + k \div 2),
                     Pick(AltDraws, seed + k \div 3), Pick(CategoryDraws, 3 * seed + k \div 7),
                     base + k)]

\* Bound on the number of timer ticks explored.
MaxTicks == 2

RefreshIntervalMs == 30000

\* Mutant of FetchSucceeds: a successful fetch also clears the error.
FetchSucceedsClearsError(seed) ==
    /\ satellites' = SampleData(seed, heap)
    /\ heap' = heap + NumSatellites
    /\ loading' = FALSE
    /\ error' = null
    /\ UNCHANGED failed

\* The try block of fetchSatellites: setSatellites(sampleData); setLoading(false)
FetchSucceeds(seed) ==
    /\ satellites' = SampleData(seed, heap)
    /\ heap' = heap + NumSatellites
    /\ loading' = FALSE
    /\ UNCHANGED <<error, failed>>

\* The catch block of fetchSatellites, taken when the data source throws:
\* setError('Failed to fetch satellite data'); setLoading(false)
FetchFails ==
    /\ error' = FetchErrorMessage
    /\ loading' = FALSE
    /\ failed' = TRUE
    /\ UNCHANGED <<satellites, heap>>

\* fetchSatellites(), called by cause ("mount" or "tick"); lastEvent.x is 1
\* when the try block completed and 0 when it threw.
fetchSatellites(cause) ==
    /\ fetches' = fetches + 1
    /\ \/ /\ \E seed \in 1..MaxSeed : FetchSucceeds(seed)
          /\ lastEvent' = [type |-> cause, x |-> 1, y |-> 0]
       \/ /\ FetchFails
          /\ lastEvent' = [type |-> cause, x |-> 0, y |-> 0]

\* setInterval(fetchSatellites, 30000): the timers with a fresh one added
SetInterval(active, ms) ==
    active \cup {[id |-> Cardinality(active) + 1, ms |-> ms]}

\* Mutant of ClearInterval: the timer is left running.
ClearIntervalLeak(active, id) == active

\* clearInterval(interval)
ClearInterval(active, id) == {t \in active : t.id # id}

\* The effect body: fetchSatellites(); const interval = setInterval(..., 30000)
MountEffect ==
    /\ phase = "initial"
    /\ phase' = "mounted"
    /\ fetchSatellites("mount")
    /\ timers' = SetInterval(timers, RefreshIntervalMs)
    /\ interval' = Cardinality(timers) + 1
    /\ UNCHANGED <<ticks, filter, searchTerm, interactionVars, proj>>

\* The interval timer fires: fetchSatellites()
TimerTick ==
    /\ timers # {}
    /\ ticks < MaxTicks
    /\ ticks' = ticks + 1
    /\ fetchSatellites("tick")
    /\ UNCHANGED <<phase, timers, interval, filter, searchTerm, interactionVars, proj>>

\* The effect cleanup, run when the component unmounts.
Unmount ==
    /\ phase = "mounted"
    /\ phase' = "unmounted"
    /\ timers' = ClearInterval(timers, interval)
    /\ lastEvent' = [type |-> "unmount", x |-> 0, y |-> 0]
    /\ UNCHANGED <<satellites, loading, error, failed, heap, interval, fetches,
                   ticks, filter, searchTerm, interactionVars, proj>>

FilterOptions == {"all", "communication", "navigation", "weather", "telescope", "debris"}

SearchTerms == {<<>>, <<"s", "a", "t", "-", "1">>, <<"S", "A", "T", "-", "1", "2">>,
                <<"T", "-", "2", "0">>, <<"s", "a", "t", "1">>}

\* <Select value={filter} onValueChange={setFilter}>
SetFilter ==
    /\ phase # "unmounted"
    /\ \E value \in FilterOptions : filter' = value
    /\ lastEvent' = [type |-> "filter", x |-> 0, y |-> 0]
    /\ UNCHANGED <<satellites, loading, error, failed, heap, phase, timers,
                   interval, fetches, ticks, searchTerm, interactionVars, proj>>

\* <Input value={searchTerm} onChange={(e) => setSearchTerm(e.target.value)}>
SetSearchTerm ==
    /\ phase # "unmounted"
    /\ \E value \in SearchTerms : searchTerm' = value
    /\ lastEvent' = [type |-> "search", x |-> 0, y |-> 0]
    /\ UNCHANGED <<satellites, loading, error, failed, heap, phase, timers,
                   interval, fetches, ticks, filter, interactionVars, proj>>

\* satellites.filter(sat => matchesCategory && matchesSearch)
MatchesCategory(sat, f) == f = "all" \/ sat.category = f

\* Mutant of MatchesSearch: the search term is not lower-cased.
MatchesSearchRawTerm(sat, term) == Includes(ToLowerCase(sat.name), term)

MatchesSearch(sat, term) == Includes(ToLowerCase(sat.name), ToLowerCase(term))

FilterSatellites(sats, f, term) ==
    SelectSeq(sats, LAMBDA sat : MatchesCategory(sat, f) /\ MatchesSearch(sat, term))

filteredSatellites == FilterSatellites(satellites, filter, searchTerm)

-----------------------------------------------------------------------------
(* Projection and rendering *)

RightAngle == 9000

LonOffset == 9000

EarthRadius == 10000

FocalLength == 100000

VisibilityCutoff == -10000

OpacityOffset == 10000

OpacityRange == 20000

\* Math.cos and Math.sin of an angle in hundredths of a degree, exact on the
\* multiples of 90 degrees (the only angles the model produces).
CosDeg(a) ==
    LET q == Norm(a, FullTurn) \div RightAngle
    IN  CASE q = 0 -> 1 [] q = 1 -> 0 [] q = 2 -> -1 [] q = 3 -> 0

SinDeg(a) ==
    LET q == Norm(a, FullTurn) \div RightAngle
    IN  CASE q = 0 -> 0 [] q = 1 -> 1 [] q = 2 -> 0 [] q = 3 -> -1

\* calculateMatrix(x, y): the row-major 3x3 matrix
calculateMatrix(x, y) ==
    LET cosX == CosDeg(x)
        sinX == SinDeg(x)
        cosY == CosDeg(y)
        sinY == SinDeg(y)
    IN  <<cosY, 0, sinY,
          sinX * sinY, cosX, -sinX * cosY,
          -cosX * sinY, sinX, cosX * cosY>>

\* project3D(point, matrix): x and y are fractions num/den (scale = 1000 / (1000 + z))
project3D(point, matrix) ==
    LET x == point.x * matrix[1] + point.y * matrix[2] + point.z * matrix[3]
        y == point.x * matrix[4] + point.y * matrix[5] + point.z * matrix[6]
        z == point.x * matrix[7] + point.y * matrix[8] + point.z * matrix[9]
    IN  [x |-> [num |-> x * (FocalLength \div 100), den |-> FocalLength + z],
         y |-> [num |-> y * (FocalLength \div 100), den |-> FocalLength + z],
         z |-> z]

\* Mutant of toCartesian: the longitude offset is left out.
toCartesianNoOffset(lon, lat, radius) ==
    LET lonRad == ParseFloat(lon)
        latRad == ParseFloat(lat)
    IN  [x |-> radius * CosDeg(latRad) * CosDeg(lonRad),
         y |-> radius * CosDeg(latRad) * SinDeg(lonRad),
         z |-> radius * SinDeg(latRad)]

\* toCartesian(lon, lat, radius)
toCartesian(lon, lat, radius) ==
    LET lonRad == ParseFloat(lon) - LonOffset
        latRad == ParseFloat(lat)
    IN  [x |-> radius * CosDeg(latRad) * CosDeg(lonRad),
         y |-> radius * CosDeg(latRad) * SinDeg(lonRad),
         z |-> radius * SinDeg(latRad)]

\* 100 + parseFloat(sat.alt) / 100 (exact for the whole-kilometre altitudes drawn)
Radius(alt) == EarthRadius + ParseFloat(alt) \div 100

isVisible(z) == z > VisibilityCutoff

\* const opacity = (proj.z + 100) / 200, as the fraction num/den
Opacity(z) == [num |-> z + OpacityOffset, den |-> OpacityRange]

\* The null a map callback returns for a point that is not drawn.
NoCircle == [drawn |-> FALSE]

\* The body of filteredSatellites.map: the circle drawn for a projected point,
\* or null.  The label is drawn when opacity > 0.7.
DrawPoint(sat, p) ==
    IF isVisible(p.z)
    THEN [key |-> sat.name, cx |-> p.x, cy |-> p.y, opacity |-> Opacity(p.z),
          fill |-> IF sat.category = "debris" THEN "#ff4444" ELSE "#44ff44",
          label |-> Opacity(p.z).num * 10 > 7 * Opacity(p.z).den]
    ELSE NoCircle

DrawSatellite(sat, matrix) ==
    DrawPoint(sat, project3D(toCartesian(sat.lon, sat.lat, Radius(sat.alt)), matrix))

\* The {loading ? ... : error ? ... : ...} branch of the svg: the text shown
\* and the circles drawn.
SatelliteLayer ==
    IF loading THEN [text |-> "Loading satellites...", points |-> <<>>]
    ELSE IF error # null THEN [text |-> error, points |-> <<>>]
    ELSE LET matrix == calculateMatrix(rotation.x, rotation.y)
             drawn == [k \in 1..Len(filteredSatellites) |->
                          DrawSatellite(filteredSatellites[k], matrix)]
         IN  [text |-> null, points |-> SelectSeq(drawn, LAMBDA c : c # NoCircle)]

\* Rotation angles the drag handlers produce from PointerPositions.
RotationAngles == {k * RightAngle : k \in -3..3}

ProjIdle == [pc |-> "idle"]

\* The projection pipeline applied step by step to one entity: the record
\* holds the entity, its radius, the rotation and each stage's result.
ProjConvert ==
    /\ proj.pc = "generated"
    /\ proj' = [proj EXCEPT !.pc = "converted",
                  !.cart = toCartesian(proj.sat.lon, proj.sat.lat, proj.radius)]
    /\ UNCHANGED <<interactionVars, dataVars, lastEvent>>

ProjProject ==
    /\ proj.pc = "converted"
    /\ proj' = [proj EXCEPT !.pc = "projected",
                  !.p = project3D(proj.cart, calculateMatrix(proj.rot.x, proj.rot.y))]
    /\ UNCHANGED <<interactionVars, dataVars, lastEvent>>

ProjDraw ==
    /\ proj.pc = "projected"
    /\ proj' = [proj EXCEPT !.pc = "drawn", !.circle = DrawPoint(proj.sat, proj.p)]
    /\ UNCHANGED <<interactionVars, dataVars, lastEvent>>

-----------------------------------------------------------------------------
(* Specifications *)

InitComponent ==
    /\ rotation = [x |-> 0, y |-> 0]
    /\ zoom = 10
    /\ isDragging = FALSE
    /\ dragStart = [x |-> 0, y |-> 0]
    /\ satellites = <<>>
    /\ loading = TRUE
    /\ filter = "all"
    /\ searchTerm = <<>>
    /\ error = null
    /\ view = [isDragging |-> FALSE, dragStart |-> [x |-> 0, y |-> 0]]
    /\ phase = "initial"
    /\ timers = {}
    /\ interval = 0
    /\ heap = 0
    /\ lastEvent = [type |-> "init", x |-> 0, y |-> 0]
    /\ drag = NoDrag
    /\ fetches = 0
    /\ ticks = 0
    /\ failed = FALSE

Init == InitComponent /\ proj = ProjIdle

\* Pointer, zoom and render events.
NextInteraction ==
    \/ MouseDown
    \/ MouseMove
    \/ MouseUp
    \/ MouseLeave
    \/ ZoomClick
    \/ Render

SpecInteraction == Init /\ [][NextInteraction]_vars

\* Pointer and render events with the drag gesture recorded.
NextDrag ==
    \/ DragDown
    \/ DragMove
    \/ DragUp
    \/ DragLeave
    \/ Render

SpecDrag == Init /\ [][NextDrag]_vars

\* Mount, timer, unmount, filter and search events.
NextData ==
    \/ MountEffect
    \/ TimerTick
    \/ Unmount
    \/ SetFilter
    \/ SetSearchTerm

SpecData == Init /\ [][NextData]_vars

\* One entity from the generator's outcomes (or the same entity placed on the
\* surface, radius 100), under one rotation.
InitProjection ==
    /\ InitComponent
    /\ \E lonDraw \in 1..Len(LonDraws), latDraw \in 1..Len(LatDraws),
          altDraw \in 1..Len(AltDraws), rx \in RotationAngles, ry \in RotationAngles,
          onSurface \in BOOLEAN :
          LET sat == NewSatellite(0, LonDraws[lonDraw], LatDraws[latDraw],
                                  AltDraws[altDraw], 0, 1)
          IN  proj = [pc |-> "generated", sat |-> sat,
                      radius |-> IF onSurface THEN EarthRadius ELSE Radius(sat.alt),
                      rot |-> [x |-> rx, y |-> ry],
                      cart |-> null, p |-> null, circle |-> null]

NextProjection ==
    \/ ProjConvert
    \/ ProjProject
    \/ ProjDraw

SpecProjection == InitProjection /\ [][NextProjection]_vars

-----------------------------------------------------------------------------
(* Claims *)

\* C1: starting from zoom = 1, zoom is always within [0.5, 2.5] (5..25 tenths),
\* and each zoom click moves zoom by one 0.1 step in the clicked direction, or to
\* the bound when the step would leave the range.
C1_ZoomClampedSteps ==
    /\ zoom = 10
    /\ [](zoom \in 5..25)
    /\ [][lastEvent'.type = "zoom" =>
            LET target == zoom + lastEvent'.x
            IN  zoom' = IF target > 25 THEN 25 ELSE IF target < 5 THEN 5 ELSE target]_vars

\* A zoom-in click has left zoom at the upper bound.
C1_Witness == zoom = 25 /\ lastEvent.type = "zoom" /\ lastEvent.x = 1

C3_DepthCullAndFade ==
    (proj.pc = "drawn" /\ proj.radius = Radius(proj.sat.alt)) =>
        IF proj.p.z <= -10000
        THEN proj.circle = NoCircle
        ELSE /\ proj.circle # NoCircle
             /\ proj.circle.opacity.num * 20000
                    = (proj.p.z + 10000) * proj.circle.opacity.den
             /\ 0 < proj.circle.opacity.num
             /\ proj.circle.opacity.num <= proj.circle.opacity.den

\* The entity of C4: longitude 90, latitude 0, radius 100, at zero rotation.
C4_Case ==
    /\ proj.pc \in {"projected", "drawn"}
    /\ proj.rot = [x |-> 0, y |-> 0]
    /\ ParseFloat(proj.sat.lon) = 9000
    /\ ParseFloat(proj.sat.lat) = 0
    /\ proj.radius = 10000

\* C4 as stated: that entity is projected to the centre of the disc, (0, 0).
C4_CenterOfDisc == C4_Case => (proj.p.x.num = 0 /\ proj.p.y.num = 0)

\* C4 amended: that entity is projected to (100, 0), on the rim of the
\* radius-100 disc, at depth 0.
C4_RimOfDisc ==
    C4_Case => /\ proj.p.x.num = 100 * proj.p.x.den
               /\ proj.p.y.num = 0
               /\ proj.p.z = 0

C4_Witness == C4_Case /\ proj.pc = "projected"

\* Two characters equal up to the case of a letter.
SameLetter(a, b) ==
    a = b \/ \E k \in 1..Len(UpperChars) : {a, b} = {UpperChars[k], LowerChars[k]}

\* term occurs in name as a substring, ignoring case.
ContainsIgnoringCase(name, term) ==
    \E k \in 0..(Len(name) - Len(term)) :
        \A j \in 1..Len(term) : SameLetter(name[k + j], term[j])

\* C5: the filtered list is exactly the entities whose category equals the
\* filter (all of them under "all") and whose name contains the search term
\* ignoring case, in the collection's order; "all" with an empty term gives the
\* whole collection, and "SAT-12" matches "sat-1".
C5_FilterExact ==
    LET keep == {k \in 1..Len(satellites) :
                    /\ filter = "all" \/ satellites[k].category = filter
                    /\ ContainsIgnoringCase(satellites[k].name, searchTerm)}
        out  == filteredSatellites
    IN  /\ Len(out) = Cardinality(keep)
        /\ {out[j] : j \in 1..Len(out)} = {satellites[k] : k \in keep}
        /\ \A j \in 1..(Len(out) - 1) : out[j].norad_id < out[j + 1].norad_id
        /\ (filter = "all" /\ searchTerm = <<>>) => out = satellites
        /\ (filter = "all" /\ searchTerm = <<"s", "a", "t", "-", "1">> /\ satellites # <<>>)
              => \E j \in 1..Len(out) : out[j].name = <<"S", "A", "T", "-", "1", "2">>

\* A category filter and the term "sat-1" keep some entities and drop others.
C5_Witness ==
    /\ filter = "debris"
    /\ searchTerm = <<"s", "a", "t", "-", "1">>
    /\ Len(filteredSatellites) > 0
    /\ Len(filteredSatellites) < Len(satellites)

\* The object identities of a collection.
Refs(sats) == {sats[k].ref : k \in 1..Len(sats)}

\* C6: the initial fetch and every timer tick (period 30 s) that succeeds
\* replace the collection by 200 freshly allocated entities with ids 1..200 and
\* categories from the closed set of five; no object of the previous
\* collection is kept, and no other step changes the collection.
C6_WholesaleRefresh ==
    /\ [](\A t \in timers : t.ms = 30000)
    /\ [][IF lastEvent'.type \in {"mount", "tick"} /\ lastEvent'.x = 1
          THEN /\ Len(satellites') = 200
               /\ \A k \in 1..200 :
                     /\ satellites'[k].norad_id = k
                     /\ satellites'[k].name = <<"S", "A", "T", "-">> \o NatToChars(k)
                     /\ satellites'[k].category \in
                           {"communication", "navigation", "weather", "telescope", "debris"}
               /\ Cardinality(Refs(satellites')) = 200
               /\ Refs(satellites') \cap Refs(satellites) = {}
          ELSE satellites' = satellites]_vars

\* A timer tick has replaced an earlier collection.
C6_Witness ==
    /\ lastEvent = [type |-> "tick", x |-> 1, y |-> 0]
    /\ Len(satellites) = 200
    /\ satellites[1].ref > 200

\* C7: while the component is mounted exactly one refresh timer exists; once
\* it is unmounted no timer exists, no tick fires, and the collection, the
\* loading flag and the error no longer change.
C7_TimerTornDown ==
    /\ [](phase = "mounted" => Cardinality(timers) = 1)
    /\ [](phase = "unmounted" => timers = {})
    /\ [][phase = "unmounted" =>
            /\ lastEvent'.type # "tick"
            /\ UNCHANGED <<satellites, loading, error>>]_vars

\* The component was unmounted after its timer had ticked.
C7_Witness == phase = "unmounted" /\ ticks > 0 /\ timers = {}

\* C8: after a failed fetch, loading is false, the error is the message
\* 'Failed to fetch satellite data', which is shown instead of the satellite
\* points, and the failure starts no further fetch: every fetch is the mount's
\* or a timer tick's.
C8_ErrorSurfaced ==
    /\ failed =>
          /\ loading = FALSE
          /\ error = "Failed to fetch satellite data"
          /\ SatelliteLayer.text = "Failed to fetch satellite data"
          /\ SatelliteLayer.points = <<>>
    /\ fetches = (IF phase = "initial" THEN 0 ELSE 1) + ticks

\* A refresh succeeded after an earlier fetch had failed.
C8_Witness ==
    /\ failed
    /\ lastEvent = [type |-> "tick", x |-> 1, y |-> 0]
    /\ Len(satellites) = 200

\* C9: the drag handlers form a two-state machine that starts idle:
\* pointer-down moves to dragging and records the anchor without changing
\* rotation, pointer-up and pointer-leave move to idle, and a pointer-move
\* received while idle leaves rotation, the anchor and zoom unchanged.
C9_DragStateMachine ==
    /\ ~isDragging
    /\ [][/\ lastEvent'.type = "mousedown" =>
                /\ isDragging'
                /\ dragStart' = [x |-> lastEvent'.x, y |-> lastEvent'.y]
                /\ rotation' = rotation
          /\ lastEvent'.type \in {"mouseup", "mouseleave"} => ~isDragging'
          /\ (lastEvent'.type = "mousemove" /\ ~isDragging) =>
                UNCHANGED <<rotation, dragStart, zoom>>]_vars

\* C10: when a pointer-down .. pointer-up gesture completes, the rotation has
\* changed by 0.3 times the displacement from the pointer-down position to the
\* last pointer-move position, modulo 360, on both axes.
C10_DragTotal ==
    (lastEvent.type = "mouseup" /\ drag.complete) =>
        /\ Norm(rotation.x - drag.rot0.x, 36000)
              = Norm(30 * (drag.last.y - drag.down.y), 36000)
        /\ Norm(rotation.y - drag.rot0.y, 36000)
              = Norm(30 * (drag.last.x - drag.down.x), 36000)

====
